---- MODULE Spec2Model ----
(***************************************************************************)
(* Model of scrape.py: the boat-availability scraper.                      *)
(*                                                                         *)
(* An ISO date string "YYYY-MM-DDT00:00:00" is the triple <<y, m, d>>; its *)
(* string order is the lexicographic order of the triple.  A datetime is   *)
(* the proleptic Gregorian ordinal of its day (all times are midnight).    *)
(* An observation is <<iso, status>> and a range is                        *)
(* <<iso_start, iso_end, status>>, as the tuples of the code.  A dict is a *)
(* function whose DOMAIN is its key set.                                   *)
(*                                                                         *)
(* Two specifications:                                                     *)
(*   Spec      main(): the year/month loop, collect_boats, the per-year    *)
(*             consolidation and the hand-over to create_ics_files.        *)
(*   NormSpec  one call of get_range_status on an arbitrary bounded        *)
(*             observation list, stepped through its three phases.         *)
(* File and network I/O (the archive cache, logging, the .ics and .html    *)
(* text) is left out: a period's page is a nondeterministic input.         *)
(***************************************************************************)
EXTENDS Integers, Sequences, FiniteSets

VARIABLES
    year_boats,    \* main: dict boat -> list of observations (never reset)
    range_boats,   \* main: dict boat -> list of ranges
    year,          \* main: loop variable of the outer for
    month,         \* main: loop variable of the inner for; 11 = months exhausted
    pc,            \* main: "collect" | "emit" | "done" | "exit" | "idle"
    emitted,       \* the argument create_ics_files was called with
    kept,          \* history: boat -> set of observations the pages delivered
    day_status,    \* get_range_status: the argument
    grouped,       \* get_range_status: the local list
    merged,        \* history: grouped as it stood after line 118
    result,        \* get_range_status: the returned list
    gpc            \* get_range_status: "call" | "merged" | "first" | "return" | "idle"

vars == <<year_boats, range_boats, year, month, pc, emitted, kept,
          day_status, grouped, merged, result, gpc>>

mainVars == <<year_boats, range_boats, year, month, pc, emitted, kept>>
normVars == <<day_status, grouped, merged, result, gpc>>

----------------------------------------------------------------------------
(* Bounds and program constants *)

MaxLen == 4
MaxObs == 3

current_year == 2025
FirstMonth == 3
EndMonth == 11

Unavailable == "Unavailable"
Booked == "Booked"
Available == "Available"
LastDayOffSeason == "Last Day Off-Season"
FirstDayOffSeason == "First Day Off-Season"

Years == (current_year - 1)..(current_year + 1)

----------------------------------------------------------------------------
(* datetime *)

IsLeap(y) == (y % 4 = 0 /\ y % 100 # 0) \/ y % 400 = 0

DaysInMonth(y, m) ==
    IF m = 2 THEN (IF IsLeap(y) THEN 29 ELSE 28)
    ELSE IF m \in {4, 6, 9, 11} THEN 30 ELSE 31

RECURSIVE DaysBeforeMonth(_, _)
DaysBeforeMonth(y, m) ==
    IF m = 1 THEN 0 ELSE DaysBeforeMonth(y, m - 1) + DaysInMonth(y, m - 1)

DaysBeforeYear(y) ==
    365 * (y - 1) + ((y - 1) \div 4) - ((y - 1) \div 100) + ((y - 1) \div 400)

\* datetime.fromisoformat(iso), as the day's ordinal
fromisoformat(iso) == DaysBeforeYear(iso[1]) + DaysBeforeMonth(iso[1], iso[2]) + iso[3]

\* datetime.isoformat(), for the ordinals of the modelled years
isoformat(n) ==
    LET y == CHOOSE yy \in Years :
                 DaysBeforeYear(yy) < n /\ n <= DaysBeforeYear(yy + 1)
        r == n - DaysBeforeYear(y)
        m == CHOOSE mm \in 1..12 :
                 DaysBeforeMonth(y, mm) < r /\ r <= DaysBeforeMonth(y, mm) + DaysInMonth(y, mm)
    IN  <<y, m, r - DaysBeforeMonth(y, m)>>

\* str < str on two ISO date strings
IsoLt(a, b) ==
    \/ a[1] < b[1]
    \/ a[1] = b[1] /\ a[2] < b[2]
    \/ a[1] = b[1] /\ a[2] = b[2] /\ a[3] < b[3]

IsoLe(a, b) == a = b \/ IsoLt(a, b)

----------------------------------------------------------------------------
(* get_range_status *)

\* Variant of sorted: the list is left in the order given
sorted_unsorted(ds) == ds

\* sorted(day_status, key=lambda x: x[0]): the stable sort by the ISO string,
\* i.e. the one permutation ordered by (key, position in the input)
sorted(ds) ==
    LET rank == [i \in DOMAIN ds |->
                    Cardinality({j \in DOMAIN ds :
                        \/ IsoLt(ds[j][1], ds[i][1])
                        \/ ds[j][1] = ds[i][1] /\ j <= i})]
    IN  [k \in DOMAIN ds |-> ds[CHOOSE i \in DOMAIN ds : rank[i] = k]]

\* Variant of Extends: the date test is dropped
Extends_status_only(current_status, status, current_date, end_date) ==
    current_status = status

\* Variant of Extends: a range never grows past the end of a month
Extends_within_month(current_status, status, current_date, end_date) ==
    /\ current_status = status
    /\ current_date - end_date = 1
    /\ isoformat(current_date)[2] = isoformat(end_date)[2]

\* line 109: the condition under which the open range is extended
Extends(current_status, status, current_date, end_date) ==
    current_status = status /\ current_date - end_date = 1

\* lines 106-115: the loop body over ds[i..hi]; yields the loop's locals
\* <<start_date, end_date, status, grouped>> after element hi
RECURSIVE ScanFrom(_, _, _, _, _, _, _)
ScanFrom(ds, i, hi, start_date, end_date, status, acc) ==
    IF i > hi
    THEN <<start_date, end_date, status, acc>>
    ELSE LET current_date == fromisoformat(ds[i][1])
             current_status == ds[i][2]
         IN  IF Extends(current_status, status, current_date, end_date)
             THEN ScanFrom(ds, i + 1, hi, start_date, current_date, status, acc)
             ELSE ScanFrom(ds, i + 1, hi, current_date, current_date, current_status,
                           Append(acc, <<isoformat(start_date), isoformat(end_date), status>>))

\* lines 106-118: the loop, run in stretches of 16 elements (which only keeps
\* the evaluation shallow), and the closing append of line 118
RECURSIVE ScanAll(_, _, _)
ScanAll(ds, i, loc) ==
    IF i > Len(ds)
    THEN Append(loc[4], <<isoformat(loc[1]), isoformat(loc[2]), loc[3]>>)
    ELSE LET hi == IF i + 15 < Len(ds) THEN i + 15 ELSE Len(ds)
         IN  ScanAll(ds, hi + 1, ScanFrom(ds, i, hi, loc[1], loc[2], loc[3], loc[4]))

\* lines 96-118 on a non-empty list
MergeDays(ds) ==
    LET s == sorted(ds)
        start_date == fromisoformat(s[1][1])
    IN  ScanAll(s, 2, <<start_date, start_date, s[1][2], <<>>>>)

\* Variant of FixFirst: every Unavailable range is collapsed, not only the first
FixFirst_every(g) ==
    [i \in DOMAIN g |->
        IF g[i][3] = Unavailable THEN <<g[i][2], g[i][2], LastDayOffSeason>> ELSE g[i]]

\* lines 120-123
FixFirst(g) ==
    IF g[1][3] = Unavailable
    THEN [g EXCEPT ![1] = <<g[1][2], g[1][2], LastDayOffSeason>>]
    ELSE g

\* Variant of FixLast: the marker is put on the range's end_date
FixLast_end(g) ==
    IF g[Len(g)][3] = Unavailable
    THEN [g EXCEPT ![Len(g)] = <<g[Len(g)][2], g[Len(g)][2], FirstDayOffSeason>>]
    ELSE g

\* lines 125-128
FixLast(g) ==
    IF g[Len(g)][3] = Unavailable
    THEN [g EXCEPT ![Len(g)] = <<g[Len(g)][1], g[Len(g)][1], FirstDayOffSeason>>]
    ELSE g

get_range_status(ds) ==
    IF ds = <<>> THEN <<>> ELSE FixLast(FixFirst(MergeDays(ds)))

----------------------------------------------------------------------------
(* parse_boats, collect_boats, main *)

Vessels == {"Aurora", "Borealis"}

EmptyDict == [b \in {} |-> <<>>]

\* A page is, per listed boat, the row's day cells <<day, class>> in table
\* order.  The site lists a boat in every month; a row may hold no day cell
\* of the four selected classes.
CellClasses == {"CbgM", "CbgB4Web", "CbgT"}

\* lines 62-82: the cells of one row that become observations
RECURSIVE Availability(_, _, _)
Availability(cells, y, m) ==
    IF cells = <<>> THEN <<>>
    ELSE LET cell == Head(cells)
             iso_date == <<y, m, cell[1]>>
             rest == Availability(Tail(cells), y, m)
         IN  IF cell[2] = "CbgM" THEN <<<<iso_date, Unavailable>>>> \o rest
             ELSE IF cell[2] = "CbgB4Web" THEN <<<<iso_date, Booked>>>> \o rest
             ELSE rest

\* Variant of KeepsBoat: every listed boat is kept
KeepsBoat_always(availability) == TRUE

\* lines 84-87: only a boat with a non-empty availability list is kept
KeepsBoat(availability) == availability # <<>>

parse_boats(html, y, m) ==
    LET names == {b \in DOMAIN html : KeepsBoat(Availability(html[b], y, m))}
    IN  [b \in names |-> Availability(html[b], y, m)]

\* lines 212-216
MergeBoats(out_boats, boats) ==
    [b \in DOMAIN out_boats \cup DOMAIN boats |->
        IF b \notin DOMAIN out_boats THEN boats[b]
        ELSE IF b \in DOMAIN boats THEN out_boats[b] \o boats[b]
        ELSE out_boats[b]]

\* lines 234-239
Consolidated(ranges, boats) ==
    [b \in DOMAIN ranges \cup DOMAIN boats |->
        IF b \notin DOMAIN boats THEN ranges[b]
        ELSE IF b \notin DOMAIN ranges THEN get_range_status(boats[b])
        ELSE ranges[b] \o get_range_status(boats[b])]

\* The pages the model delivers: day cells in the months DataMonths only.  The
\* row of Aurora shows the first and the last day of the month, each at most
\* once and in any of the classes; the row of Borealis shows at most the
\* first day, booked or free.
DataMonths == {3, 4}

PageDays(y, m) == IF m \in DataMonths THEN {1, DaysInMonth(y, m)} ELSE {}

Rows(b, y, m) ==
    IF b = "Aurora"
    THEN {<<>>}
         \cup {<<<<d, c>>>> : d \in PageDays(y, m), c \in CellClasses}
         \cup {<<<<q[1], q[2]>>, <<q[3], q[4]>>>> :
                  q \in {r \in PageDays(y, m) \X CellClasses
                               \X PageDays(y, m) \X CellClasses : r[1] < r[3]}}
    ELSE {<<>>}
         \cup {<<<<d, c>>>> : d \in PageDays(y, m) \cap {1}, c \in {"CbgB4Web", "CbgT"}}

\* the number of observations a dict of boats holds
TotalObs(boats) ==
    LET RECURSIVE Sum(_)
        Sum(S) == IF S = {} THEN 0
                  ELSE LET b == CHOOSE x \in S : TRUE IN Len(boats[b]) + Sum(S \ {b})
    IN  Sum(DOMAIN boats)

Pages(y, m) ==
    {[b \in Vessels |-> IF b = "Aurora" THEN ra ELSE rb] :
        ra \in Rows("Aurora", y, m), rb \in Rows("Borealis", y, m)}

KeptOf(cells, y, m) ==
    {<<<<y, m, cells[i][1]>>, IF cells[i][2] = "CbgM" THEN Unavailable ELSE Booked>> :
        i \in {j \in DOMAIN cells : cells[j][2] \in {"CbgM", "CbgB4Web"}}}

NormIdle ==
    /\ day_status = <<>>
    /\ grouped = <<>>
    /\ merged = <<>>
    /\ result = <<>>
    /\ gpc = "idle"

Init ==
    /\ year_boats = EmptyDict
    /\ range_boats = EmptyDict
    /\ year = current_year - 1
    /\ month = FirstMonth
    /\ pc = "collect"
    /\ emitted = EmptyDict
    /\ kept = [b \in Vessels |-> {}]
    /\ NormIdle

\* collect_boats(year, month, year_boats), one pass of the inner loop
CollectBoats ==
    /\ pc = "collect"
    /\ month < EndMonth
    /\ \E html \in Pages(year, month) :
          /\ year_boats' = MergeBoats(year_boats, parse_boats(html, year, month))
          /\ TotalObs(year_boats') <= MaxObs
          /\ kept' = [b \in Vessels |-> kept[b] \cup KeptOf(html[b], year, month)]
    /\ month' = month + 1
    /\ UNCHANGED <<range_boats, year, pc, emitted>>
    /\ UNCHANGED normVars

\* lines 233-239 and the step of the outer loop
Consolidate ==
    /\ pc = "collect"
    /\ month = EndMonth
    /\ range_boats' = Consolidated(range_boats, year_boats)
    /\ year' = year + 1
    /\ month' = FirstMonth
    /\ pc' = IF year + 1 < current_year + 2 THEN "collect" ELSE "emit"
    /\ UNCHANGED <<year_boats, emitted, kept>>
    /\ UNCHANGED normVars

\* lines 241-243
ExitNoBoats ==
    /\ pc = "emit"
    /\ DOMAIN range_boats = {}
    /\ pc' = "exit"
    /\ UNCHANGED <<year_boats, range_boats, year, month, emitted, kept>>
    /\ UNCHANGED normVars

\* line 245
CreateIcsFiles ==
    /\ pc = "emit"
    /\ DOMAIN range_boats # {}
    /\ emitted' = range_boats
    /\ pc' = "done"
    /\ UNCHANGED <<year_boats, range_boats, year, month, kept>>
    /\ UNCHANGED normVars

Next == CollectBoats \/ Consolidate \/ ExitNoBoats \/ CreateIcsFiles

Spec == Init /\ [][Next]_vars

----------------------------------------------------------------------------
(* One call of get_range_status *)

NormDates == {<<2025, 3, 30>>, <<2025, 3, 31>>, <<2025, 4, 1>>, <<2025, 4, 2>>, <<2025, 4, 4>>}
NormStatuses == {Unavailable, Booked}

BoundedInputs == UNION {[1..n -> NormDates \X NormStatuses] : n \in 0..MaxLen}

\* Scenario A of the specification
ScenarioA ==
    <<<<<<2025, 3, 1>>, Unavailable>>, <<<<2025, 3, 2>>, Unavailable>>,
      <<<<2025, 3, 3>>, Available>>>>

\* Scenario B of the specification, as the daily observations of its ranges
ScenarioB ==
    LET first == fromisoformat(<<2025, 3, 1>>)
        a == fromisoformat(<<2025, 3, 11>>)
        u == fromisoformat(<<2025, 9, 21>>)
        last == fromisoformat(<<2025, 10, 31>>)
    IN  [i \in 1..(last - first + 1) |->
            <<isoformat(first + i - 1),
              IF first + i - 1 < a \/ first + i - 1 >= u THEN Unavailable ELSE Available>>]

NormInputs == BoundedInputs \cup {ScenarioA, ScenarioB}

MainIdle ==
    /\ year_boats = EmptyDict
    /\ range_boats = EmptyDict
    /\ year = current_year - 1
    /\ month = FirstMonth
    /\ pc = "idle"
    /\ emitted = EmptyDict
    /\ kept = [b \in Vessels |-> {}]

NormInit ==
    /\ MainIdle
    /\ day_status \in NormInputs
    /\ grouped = <<>>
    /\ merged = <<>>
    /\ result = <<>>
    /\ gpc = "call"

\* lines 92-94
ReturnEmpty ==
    /\ gpc = "call"
    /\ day_status = <<>>
    /\ result' = <<>>
    /\ gpc' = "return"
    /\ UNCHANGED <<day_status, grouped, merged>>
    /\ UNCHANGED mainVars

\* lines 96-118
SortAndMerge ==
    /\ gpc = "call"
    /\ day_status # <<>>
    /\ grouped' = MergeDays(day_status)
    /\ merged' = grouped'
    /\ gpc' = "merged"
    /\ UNCHANGED <<day_status, result>>
    /\ UNCHANGED mainVars

\* lines 120-123
CorrectFirst ==
    /\ gpc = "merged"
    /\ grouped' = FixFirst(grouped)
    /\ gpc' = "first"
    /\ UNCHANGED <<day_status, merged, result>>
    /\ UNCHANGED mainVars

\* lines 125-130
CorrectLast ==
    /\ gpc = "first"
    /\ grouped' = FixLast(grouped)
    /\ result' = grouped'
    /\ gpc' = "return"
    /\ UNCHANGED <<day_status, merged>>
    /\ UNCHANGED mainVars

NormNext == ReturnEmpty \/ SortAndMerge \/ CorrectFirst \/ CorrectLast

NormSpec == NormInit /\ [][NormNext]_vars

----------------------------------------------------------------------------
(* Properties of main() *)

RECURSIVE SetToSeq(_)
SetToSeq(S) ==
    IF S = {} THEN <<>>
    ELSE LET x == CHOOSE e \in S : TRUE IN <<x>> \o SetToSeq(S \ {x})

InTimeline(b, r) == b \in DOMAIN emitted /\ \E i \in DOMAIN emitted[b] : emitted[b][i] = r

\* the merged range list of boat b's observations of year y (lines 96-118)
YearList(b, y) ==
    LET S == {o \in kept[b] : o[1][1] = y}
    IN  IF S = {} THEN <<>> ELSE MergeDays(SetToSeq(S))

\* C1: when main hands range_boats to create_ics_files, every vessel's range
\* list is strictly increasing in start_date and each range starts after the
\* previous range's end_date (the pages of Spec are duplicate-free).
C1_Ordered ==
    pc = "done" =>
        \A b \in DOMAIN emitted :
            \A i \in 1..(Len(emitted[b]) - 1) :
                /\ IsoLt(emitted[b][i][1], emitted[b][i + 1][1])
                /\ IsoLt(emitted[b][i][2], emitted[b][i + 1][1])

\* C2: in the final timeline, for every year whose merged list has at least
\* two ranges, the year's leading Unavailable range appears only as the
\* single-day Last Day Off-Season marker on its end_date and the year's
\* trailing Unavailable range only as the single-day First Day Off-Season
\* marker on its start_date; the Unavailable range itself does not remain.
C2_PerYearCorrection ==
    pc = "done" =>
        \A b \in Vessels : \A y \in Years :
            LET g == YearList(b, y)
                n == Len(g)
            IN  n >= 2 =>
                  /\ g[1][3] = Unavailable =>
                        /\ InTimeline(b, <<g[1][2], g[1][2], LastDayOffSeason>>)
                        /\ ~InTimeline(b, g[1])
                  /\ g[n][3] = Unavailable =>
                        /\ InTimeline(b, <<g[n][1], g[n][1], FirstDayOffSeason>>)
                        /\ ~InTimeline(b, g[n])

\* boat b is Booked on the last day of month m and on the first day of m + 1
BookedAcross(b, y, m) ==
    /\ <<<<y, m, DaysInMonth(y, m)>>, Booked>> \in kept[b]
    /\ <<<<y, m + 1, 1>>, Booked>> \in kept[b]

MonthEnds == Vessels \X Years \X (FirstMonth..(EndMonth - 2))

\* C6 as stated: a Booked run across a month boundary appears in the timeline
\* as two ranges, one ending on the last day of the month and one starting on
\* the first day of the next, and no range covers both days.
C6_SplitAtMonth ==
    pc = "done" =>
        \A q \in MonthEnds :
            LET b == q[1]
                eom == <<q[2], q[3], DaysInMonth(q[2], q[3])>>
                bom == <<q[2], q[3] + 1, 1>>
            IN  BookedAcross(q[1], q[2], q[3]) =>
                  /\ \E i \in DOMAIN emitted[b] :
                        emitted[b][i][2] = eom /\ emitted[b][i][3] = Booked
                  /\ \E i \in DOMAIN emitted[b] :
                        emitted[b][i][1] = bom /\ emitted[b][i][3] = Booked
                  /\ ~\E i \in DOMAIN emitted[b] :
                        IsoLe(emitted[b][i][1], eom) /\ IsoLe(bom, emitted[b][i][2])

\* C6 amended: observations are normalized per year over all months collected
\* so far, so a Booked run across a month boundary appears in the timeline as
\* a Booked range that covers both days, and no Booked range ends on the last
\* day of the month or starts on the first day of the next.
C6_MergedAcrossMonth ==
    pc = "done" =>
        \A q \in MonthEnds :
            LET b == q[1]
                eom == <<q[2], q[3], DaysInMonth(q[2], q[3])>>
                bom == <<q[2], q[3] + 1, 1>>
            IN  BookedAcross(q[1], q[2], q[3]) =>
                  /\ \E i \in DOMAIN emitted[b] :
                        /\ emitted[b][i][3] = Booked
                        /\ IsoLe(emitted[b][i][1], eom)
                        /\ IsoLe(bom, emitted[b][i][2])
                  /\ ~\E i \in DOMAIN emitted[b] :
                        /\ emitted[b][i][3] = Booked
                        /\ (emitted[b][i][2] = eom \/ emitted[b][i][1] = bom)

C6_Witness ==
    /\ pc = "done"
    /\ \E q \in MonthEnds : BookedAcross(q[1], q[2], q[3])

KeptDates(b) == {o[1] : o \in kept[b]}

\* C10: a vessel is a key of the dict handed to create_ics_files iff a page
\* delivered a kept observation of it; every key has a non-empty range list
\* whose ranges start and end on dates observed for that vessel; and main
\* exits without calling create_ics_files only when no vessel was observed.
C10_ObservedVesselsOnly ==
    /\ pc = "done" =>
          /\ DOMAIN emitted = {b \in Vessels : kept[b] # {}}
          /\ \A b \in DOMAIN emitted :
                /\ emitted[b] # <<>>
                /\ \A i \in DOMAIN emitted[b] :
                      /\ emitted[b][i][1] \in KeptDates(b)
                      /\ emitted[b][i][2] \in KeptDates(b)
    /\ pc = "exit" => \A b \in Vessels : kept[b] = {}

\* Scenario C: one vessel observed in March only, the other never
C10_Witness ==
    /\ pc = "done"
    /\ DOMAIN emitted = {"Aurora"}
    /\ kept["Borealis"] = {}
    /\ kept["Aurora"] # {}
    /\ \A o \in kept["Aurora"] : o[1][1] = current_year /\ o[1][2] = 3

----------------------------------------------------------------------------
(* Properties of get_range_status *)

HasDuplicateDate ==
    \E i, j \in DOMAIN day_status : i < j /\ day_status[i][1] = day_status[j][1]

ObservedDays == {fromisoformat(day_status[k][1]) : k \in DOMAIN day_status}

FirstDay == CHOOSE n \in ObservedDays : \A k \in ObservedDays : n <= k
LastDay == CHOOSE n \in ObservedDays : \A k \in ObservedDays : k <= n

\* a non-empty duplicate-free list of one status on consecutive days
SameStatusRun ==
    /\ day_status # <<>>
    /\ ~HasDuplicateDate
    /\ \A k \in DOMAIN day_status : day_status[k][2] = day_status[1][2]
    /\ ObservedDays = FirstDay..LastDay

ScenarioBMerged ==
    <<<<<<2025, 3, 1>>, <<2025, 3, 10>>, Unavailable>>,
      <<<<2025, 3, 11>>, <<2025, 9, 20>>, Available>>,
      <<<<2025, 9, 21>>, <<2025, 10, 31>>, Unavailable>>>>

ScenarioBCorrected ==
    <<<<<<2025, 3, 10>>, <<2025, 3, 10>>, LastDayOffSeason>>,
      <<<<2025, 3, 11>>, <<2025, 9, 20>>, Available>>,
      <<<<2025, 9, 21>>, <<2025, 9, 21>>, FirstDayOffSeason>>>>

\* C3: when the merged list has at least two ranges, the returned list has a
\* first range of status Unavailable replaced by (end_date, end_date, Last Day
\* Off-Season) and a last range of status Unavailable replaced by (start_date,
\* start_date, First Day Off-Season); Scenario B gives the stated list.
C3_BoundaryMarkers ==
    gpc = "return" =>
        /\ Len(merged) >= 2 =>
              LET n == Len(merged)
              IN  /\ Len(result) = n
                  /\ merged[1][3] = Unavailable =>
                        result[1] = <<merged[1][2], merged[1][2], LastDayOffSeason>>
                  /\ merged[n][3] = Unavailable =>
                        result[n] = <<merged[n][1], merged[n][1], FirstDayOffSeason>>
        /\ day_status = ScenarioB =>
              merged = ScenarioBMerged /\ result = ScenarioBCorrected

C3_Witness ==
    /\ gpc = "return"
    /\ day_status = ScenarioB
    /\ merged = ScenarioBMerged
    /\ result = ScenarioBCorrected

\* C4 as stated: a duplicate-free list of one status on consecutive days
\* returns exactly the one range (first date, last date, status), whatever
\* the status.
C4_OneRangeAnyStatus ==
    gpc = "return" /\ SameStatusRun =>
        result = <<<<isoformat(FirstDay), isoformat(LastDay), day_status[1][2]>>>>

\* C4 amended: such a list is merged into the one range (first date, last
\* date, status); get_range_status returns it as it is when the status is
\* not Unavailable, and returns the single range (last date, last date, Last
\* Day Off-Season) when the status is Unavailable.
C4_OneRange ==
    gpc = "return" /\ SameStatusRun =>
        /\ merged = <<<<isoformat(FirstDay), isoformat(LastDay), day_status[1][2]>>>>
        /\ result = IF day_status[1][2] = Unavailable
                    THEN <<<<isoformat(LastDay), isoformat(LastDay), LastDayOffSeason>>>>
                    ELSE merged

C4_Witness ==
    /\ gpc = "return"
    /\ SameStatusRun
    /\ Len(day_status) >= 3
    /\ IsoLt(day_status[2][1], day_status[1][1])
    /\ day_status[1][2] = Unavailable
    /\ result = <<<<isoformat(LastDay), isoformat(LastDay), LastDayOffSeason>>>>

\* the status a returned range was observed with
ObservedAs(status) ==
    IF status \in {LastDayOffSeason, FirstDayOffSeason} THEN Unavailable ELSE status

\* C5: every day a returned range covers was observed with the range's
\* status, so two observations lie in one range only if they have the same
\* status and every day between them was observed with it; two same-status
\* observations with a missing day between them come out in distinct ranges.
C5_DateAdjacency ==
    gpc = "return" =>
        LET ord == [k \in DOMAIN day_status |-> fromisoformat(day_status[k][1])]
            days == {ord[k] : k \in DOMAIN day_status}
        IN  /\ \A i \in DOMAIN result :
                  \A n \in fromisoformat(result[i][1])..fromisoformat(result[i][2]) :
                      \E k \in DOMAIN day_status :
                          ord[k] = n /\ day_status[k][2] = ObservedAs(result[i][3])
            /\ \A j, k \in DOMAIN day_status :
                  (/\ day_status[j][2] = day_status[k][2]
                   /\ \E n \in (ord[j] + 1)..(ord[k] - 1) : n \notin days)
                  => (/\ Len(result) >= 2
                      /\ ~\E i \in DOMAIN result :
                            /\ IsoLe(result[i][1], day_status[j][1])
                            /\ IsoLe(day_status[k][1], result[i][2]))

C5_Witness ==
    /\ gpc = "return"
    /\ Len(day_status) = 2
    /\ day_status[1][2] = day_status[2][2]
    /\ fromisoformat(day_status[2][1]) - fromisoformat(day_status[1][1]) = 2
    /\ Len(result) = 2
    /\ result[1][2] = day_status[1][1]
    /\ result[2][1] = day_status[2][1]

\* C7: when the merged list is exactly one Unavailable range, both rules act:
\* the result carries a Last Day Off-Season and a First Day Off-Season marker,
\* each dated at the original range's start_date or end_date.
C7_BothRulesOnSingleRange ==
    gpc = "return" /\ Len(merged) = 1 /\ merged[1][3] = Unavailable =>
        /\ \E i \in DOMAIN result : result[i][3] = FirstDayOffSeason
        /\ \E i \in DOMAIN result : result[i][3] = LastDayOffSeason
        /\ \A i \in DOMAIN result :
              result[i][3] \in {LastDayOffSeason, FirstDayOffSeason} =>
                  /\ result[i][1] = result[i][2]
                  /\ result[i][1] \in {merged[1][1], merged[1][2]}

Count(seq, status) == Cardinality({i \in DOMAIN seq : seq[i][3] = status})

\* C8: the returned list has the length of the merged list and differs from
\* it at most in its first and its last element: interior ranges are
\* returned unchanged, an end that is not Unavailable is returned unchanged,
\* each marker occurs at most once, and the empty list is returned for the
\* empty input.
C8_OnlyEndsChange ==
    /\ gpc = "return" =>
          /\ day_status = <<>> => result = <<>>
          /\ Len(result) = Len(merged)
          /\ \A i \in 2..(Len(merged) - 1) : result[i] = merged[i]
          /\ Len(merged) >= 1 =>
                /\ merged[1][3] # Unavailable => result[1] = merged[1]
                /\ merged[Len(merged)][3] # Unavailable =>
                      result[Len(merged)] = merged[Len(merged)]
          /\ Count(result, LastDayOffSeason) <= 1
          /\ Count(result, FirstDayOffSeason) <= 1
    /\ gpc = "first" =>
          /\ Len(grouped) = Len(merged)
          /\ \A i \in 2..Len(merged) : grouped[i] = merged[i]

C8_Witness ==
    /\ gpc = "return"
    /\ Len(merged) >= 3
    /\ result[1][3] = LastDayOffSeason
    /\ result[Len(result)][3] = FirstDayOffSeason
    /\ \E i \in 2..(Len(merged) - 1) :
          merged[i][3] = Unavailable /\ result[i] = merged[i]

\* C9: a list that holds one date twice is rejected: get_range_status never
\* returns a range list for it.
C9_DuplicateRejected ==
    gpc = "return" => ~HasDuplicateDate

====
